---- MODULE Spec2Model ----
(***************************************************************************)
(* dictionary-plus: the six server actions of src/src/actions/index.ts     *)
(* over the four tables of src/db/tables.ts.                               *)
(*                                                                         *)
(* A table is the sequence of its rows in insertion order; the primary key *)
(* is autoIncrement and no action deletes, so a row's id is its position.  *)
(* An action input is a record whose DOMAIN holds exactly the keys the     *)
(* caller supplied: an omitted optional key is `undefined` in the handler. *)
(* A `const [x] = await db.select()...limit(1)` result is a sequence of at *)
(* most one row; the empty sequence is the handler's `undefined`.          *)
(* A nullable column that holds no value holds NULL.                       *)
(***************************************************************************)
EXTENDS Integers, Sequences, FiniteSets, TLC

VARIABLES
    DictionaryEntries,  \* rows of the DictionaryEntries table
    EntryVariants,      \* rows of the EntryVariants table
    UserWordNotes,      \* rows of the UserWordNotes table
    LookupHistory,      \* rows of the LookupHistory table
    now,                \* the wall clock read by `new Date()`
    last,               \* the call that completed last: action, caller, input, outcome
    focus,              \* the table whose action draws its full input set in this run
    calls               \* the handlers in flight (interleaved executions only)

tables == <<DictionaryEntries, EntryVariants, UserWordNotes, LookupHistory>>
vars == <<DictionaryEntries, EntryVariants, UserWordNotes, LookupHistory, now, last, focus, calls>>

----------------------------------------------------------------------------
(* Bounds of the model *)

MaxEntries == 2
MaxVariants == 2
MaxNotes == 2
MaxHistory == 2
MaxTime == 1
MaxCalls == 2

----------------------------------------------------------------------------
(* Values *)

NULL == "NULL"
NoUser == "anonymous"
Users == {"U1", "U2"}

\* The value of focus in the runs with interleaved callers, which have one user.
Interleaved == "interleaved"

Callers == IF focus = Interleaved THEN {"U1", NoUser} ELSE Users \cup {NoUser}
Familiarity == {"new", "learning", "familiar", "mastered"}

Has(input, f) == f \in DOMAIN input

\* input.f ?? d
Coalesce(input, f, d) == IF Has(input, f) THEN input[f] ELSE d

\* The record r restricted to the keys whose value is not `undefined`.
Defined(r, undefinedKeys) == [k \in (DOMAIN r) \ undefinedKeys |-> r[k]]

\* ....limit(1)
Limit1(rows) == IF Len(rows) = 0 THEN <<>> ELSE <<rows[1]>>

\* NULL of a number column
NULLID == -1

----------------------------------------------------------------------------
(* The store: src/db/tables.ts and the query builder's insert/update *)

\* Column defaults of each table; `default: NOW` is the time of the insert.
DictionaryEntriesDefaults(t) ==
    [language |-> "en", lemma |-> NULL, payload |-> NULL, partOfSpeech |-> NULL,
     fetchedAt |-> t, createdAt |-> t, updatedAt |-> t]

EntryVariantsDefaults(t) == [variantType |-> NULL, createdAt |-> t]

UserWordNotesDefaults(t) ==
    [tags |-> NULL, note |-> NULL, exampleSentence |-> NULL, isStarred |-> FALSE,
     familiarity |-> "new", createdAt |-> t, updatedAt |-> t]

LookupHistoryDefaults(t) ==
    [userId |-> NULL, language |-> "en", entryId |-> NULLID, lookedAt |-> t,
     source |-> NULL, context |-> NULL]

\* The row db.insert(T).values(values) stores: a fresh autoIncrement id, the
\* given values, and the column default for every key that is `undefined`.
NewRow(rows, values, defaults) ==
    [k \in {"id"} \cup DOMAIN defaults \cup DOMAIN values |->
        IF k = "id" THEN Len(rows) + 1
        ELSE IF k \in DOMAIN values THEN values[k]
        ELSE defaults[k]]

\* An insert that resolves the row by its values first and replaces a stored
\* row that has them, as an upsert on the table's columns would.
InsertOrReplace(rows, values, defaults) ==
    LET Same(r) == \A k \in DOMAIN values \ {"createdAt", "lookedAt"} : r[k] = values[k]
        found == SelectSeq(rows, Same)
    IN IF Len(found) > 0
       THEN [i \in 1..Len(rows) |->
                IF rows[i].id = found[1].id
                THEN [k \in DOMAIN rows[i] |->
                         IF k \in DOMAIN values THEN values[k] ELSE rows[i][k]]
                ELSE rows[i]]
       ELSE Append(rows, NewRow(rows, values, defaults))

\* db.insert(T).values(values)
Insert(rows, values, defaults) == Append(rows, NewRow(rows, values, defaults))

\* Update without its where clause.
UpdateEvery(rows, id, values) ==
    [i \in 1..Len(rows) |->
        [k \in DOMAIN rows[i] |->
            IF k \in DOMAIN values THEN values[k] ELSE rows[i][k]]]

\* db.update(T).set(values).where(eq(T.id, id)): keys that are `undefined`
\* in values are skipped, every other key is overwritten.
Update(rows, id, values) ==
    [i \in 1..Len(rows) |->
        IF rows[i].id = id
        THEN [k \in DOMAIN rows[i] |->
                 IF k \in DOMAIN values THEN values[k] ELSE rows[i][k]]
        ELSE rows[i]]

\* SelectById without its where clause.
SelectFirst(rows, id) == Limit1(rows)

\* db.select().from(T).where(eq(T.id, id)).limit(1)
SelectById(rows, id) ==
    LET Test(r) == r.id = id IN Limit1(SelectSeq(rows, Test))

\* SelectNote with the note's own id compared where the entry's id belongs.
SelectNoteByOwnId(rows, entryId, userId) ==
    LET Test(r) == r.id = entryId /\ r.userId = userId
    IN Limit1(SelectSeq(rows, Test))

\* db.select().from(UserWordNotes)
\*   .where(and(eq(entryId, entryId), eq(userId, userId))).limit(1)
SelectNote(rows, entryId, userId) ==
    LET Test(r) == r.entryId = entryId /\ r.userId = userId
    IN Limit1(SelectSeq(rows, Test))

\* SelectByUser without its where clause.
SelectAll(rows, userId) == rows

\* db.select().from(T).where(eq(T.userId, userId))
SelectByUser(rows, userId) ==
    LET Test(r) == r.userId = userId IN SelectSeq(rows, Test)

----------------------------------------------------------------------------
(* Inputs of the actions *)

\* Values a caller may pass as an entry id: no row, every row, one past the end.
Ids == 0..(MaxEntries + 1)

WithKey(r, key, v) == [k \in DOMAIN r \cup {key} |-> IF k = key THEN v ELSE r[k]]

\* Each run exercises one table in depth: the action that writes the table in
\* focus draws from its full input set and fills the table up to its bound; the
\* other actions draw from a small set, and their tables stay empty, except that
\* DictionaryEntries, which the others refer to, always fills.
Focuses == {"entries", "variants", "notes", "lookups"}

\* The table has room for one more row. In the interleaved runs every action
\* draws from a small set and every table fills.
Room(rows, table, max) ==
    Len(rows) < (IF focus \in {table, Interleaved} \/ table = "entries" THEN max ELSE 0)

\* Entry ids a caller may refer to: every row, and one past the end.
Refs == 1..(MaxEntries + 1)

UpsertEntryBodies ==
    IF focus = "entries"
    THEN { [term |-> "run"],
           [term |-> "ran", lemma |-> "run"],
           [term |-> "run", language |-> "fr", lemma |-> "run", payload |-> "defs",
            partOfSpeech |-> "verb"],
           [term |-> "run", fetchedAt |-> 0],
           [lemma |-> "run"],
           [term |-> ""] }
    ELSE { [term |-> "run"] }

UpsertEntryInputs ==
    UpsertEntryBodies \cup
    CASE focus = "entries" -> { WithKey(b, "id", i) : b \in UpsertEntryBodies, i \in Ids }
      [] focus = Interleaved -> { [id |-> 1, term |-> "ran"] }
      [] OTHER -> {}

AddVariantInputs ==
    IF focus = "variants"
    THEN { [entryId |-> i, variant |-> v] : i \in Refs, v \in {"", "runs"} }
         \cup { [entryId |-> i, variant |-> "running", variantType |-> "gerund"] : i \in Refs }
    ELSE { [entryId |-> 1, variant |-> "runs"] }

SaveUserNoteBodies ==
    IF focus = "notes"
    THEN { [isStarred |-> TRUE],
           [note |-> "means to jog", exampleSentence |-> "I run."],
           [isStarred |-> FALSE, familiarity |-> "learning", tags |-> "exam"] }
    ELSE { [isStarred |-> TRUE] }

SaveUserNoteInputs ==
    { WithKey(b, "entryId", i) : b \in SaveUserNoteBodies,
                                 i \in IF focus = "notes" THEN Refs ELSE {1} }

\* entryId, when given, names a stored entry: what the store does with a
\* dangling reference is the store's business and is left out.
LogLookupInputs ==
    IF focus = "lookups"
    THEN { [term |-> ""], [term |-> "run"],
           [term |-> "courir", language |-> "fr", source |-> "web"] }
         \cup { [term |-> "run", entryId |-> i, context |-> "a page"] :
                  i \in 1..Len(DictionaryEntries) }
    ELSE { [term |-> "run"] }

----------------------------------------------------------------------------
(* Input schemas: an action's handler runs only on an input its schema accepts *)

\* z.string().min(1)
NonEmptyString(input, f) == Has(input, f) /\ input[f] # ""

UpsertEntrySchema(input) == NonEmptyString(input, "term")

AddVariantSchema(input) == Has(input, "entryId") /\ NonEmptyString(input, "variant")

SaveUserNoteSchema(input) ==
    /\ Has(input, "entryId")
    /\ Has(input, "familiarity") => input.familiarity \in Familiarity

LogLookupSchema(input) == NonEmptyString(input, "term")

----------------------------------------------------------------------------
(* The handlers' pure parts *)

\* requireUser without its check.
requireNothing(caller) == TRUE

\* requireUser returns the user (TRUE) or throws UNAUTHORIZED (FALSE).
requireUser(caller) == caller # NoUser

\* `if (input.id)`: an id that is given and is not 0.
Truthy(input, f) == Has(input, f) /\ input[f] # 0

\* The clock at a `new Date()` that follows one that read t.
Later(t) == { u \in {t, t + 1} : u <= MaxTime }

\* baseValues with fetchedAt as the optional fields are: `undefined` when the
\* input gives none.
EntryBaseValuesFetchedAtOptional(input, t1, t2, t3) ==
    Defined([term |-> input.term,
             language |-> Coalesce(input, "language", "en"),
             lemma |-> Coalesce(input, "lemma", NULL),
             payload |-> Coalesce(input, "payload", NULL),
             partOfSpeech |-> Coalesce(input, "partOfSpeech", NULL),
             fetchedAt |-> Coalesce(input, "fetchedAt", NULLID),
             createdAt |-> t2,
             updatedAt |-> t3],
            {"lemma", "payload", "partOfSpeech", "fetchedAt"} \ DOMAIN input)

\* upsertEntry's baseValues; t1, t2, t3 are its three clock reads.
EntryBaseValues(input, t1, t2, t3) ==
    Defined([term |-> input.term,
             language |-> Coalesce(input, "language", "en"),
             lemma |-> Coalesce(input, "lemma", NULL),
             payload |-> Coalesce(input, "payload", NULL),
             partOfSpeech |-> Coalesce(input, "partOfSpeech", NULL),
             fetchedAt |-> Coalesce(input, "fetchedAt", t1),
             createdAt |-> t2,
             updatedAt |-> t3],
            {"lemma", "payload", "partOfSpeech"} \ DOMAIN input)

\* input.f ?? existing?.f: `undefined` when neither is there.
NoteUndefined(input, existing) ==
    IF Len(existing) = 0
    THEN {"tags", "note", "exampleSentence"} \ DOMAIN input
    ELSE {}

\* Merge without the fall back on the existing row.
MergeClobber(input, existing, f, d) == IF Has(input, f) THEN input[f] ELSE d

\* input.f ?? existing?.f ?? d
Merge(input, existing, f, d) ==
    IF Has(input, f) THEN input[f]
    ELSE IF Len(existing) > 0 /\ existing[1][f] # NULL THEN existing[1][f]
    ELSE d

\* input.f ?? existing?.f ?? d, for a column that is never NULL
MergeNotNull(input, existing, f, d) ==
    IF Has(input, f) THEN input[f]
    ELSE IF Len(existing) > 0 THEN existing[1][f]
    ELSE d

\* saveUserNote's baseValues with updatedAt merged as createdAt is.
NoteBaseValuesKeepsUpdatedAt(input, userId, existing, t1, t2) ==
    Defined([entryId |-> input.entryId,
             userId |-> userId,
             tags |-> Merge(input, existing, "tags", NULL),
             note |-> Merge(input, existing, "note", NULL),
             exampleSentence |-> Merge(input, existing, "exampleSentence", NULL),
             isStarred |-> MergeNotNull(input, existing, "isStarred", FALSE),
             familiarity |-> MergeNotNull(input, existing, "familiarity", "new"),
             createdAt |-> IF Len(existing) > 0 THEN existing[1].createdAt ELSE t1,
             updatedAt |-> IF Len(existing) > 0 THEN existing[1].updatedAt ELSE t2],
            NoteUndefined(input, existing))

\* saveUserNote's baseValues; t1 and t2 are its clock reads.
NoteBaseValues(input, userId, existing, t1, t2) ==
    Defined([entryId |-> input.entryId,
             userId |-> userId,
             tags |-> Merge(input, existing, "tags", NULL),
             note |-> Merge(input, existing, "note", NULL),
             exampleSentence |-> Merge(input, existing, "exampleSentence", NULL),
             isStarred |-> MergeNotNull(input, existing, "isStarred", FALSE),
             familiarity |-> MergeNotNull(input, existing, "familiarity", "new"),
             createdAt |-> IF Len(existing) > 0 THEN existing[1].createdAt ELSE t1,
             updatedAt |-> t2],
            NoteUndefined(input, existing))

\* The values logLookup inserts; t is its clock read.
LookupValues(input, userId, t) ==
    [k \in DOMAIN input \cup {"userId", "language", "lookedAt"} |->
        CASE k = "userId" -> userId
          [] k = "language" -> Coalesce(input, "language", "en")
          [] k = "lookedAt" -> t
          [] OTHER -> input[k]]

\* A write that resolves the pair again in the store, as a unique index on
\* (userId, entryId) with an upsert would.
NoteWriteByPair(rows, existing, values, t) ==
    LET current == SelectNote(rows, values.entryId, values.userId) IN
    IF Len(current) > 0
    THEN Update(rows, current[1].id, values)
    ELSE Insert(rows, values, UserWordNotesDefaults(t))

\* NoteWrite without its `if (existing)` branch.
NoteWriteAlwaysInserts(rows, existing, values, t) ==
    Insert(rows, values, UserWordNotesDefaults(t))

\* saveUserNote's write: `if (existing)` update that row, else insert.
NoteWrite(rows, existing, values, t) ==
    IF Len(existing) > 0
    THEN Update(rows, existing[1].id, values)
    ELSE Insert(rows, values, UserWordNotesDefaults(t))

\* The row a write of saveUserNote returns.
NoteWritten(rowsAfter, existing) ==
    IF Len(existing) > 0
    THEN SelectById(rowsAfter, existing[1].id)
    ELSE <<rowsAfter[Len(rowsAfter)]>>

----------------------------------------------------------------------------
(* State after construction: empty tables, no call made *)

NoCall == [op |-> "none", caller |-> NoUser, input |-> <<>>, result |-> "none", ret |-> <<>>]

Init ==
    /\ DictionaryEntries = <<>>
    /\ EntryVariants = <<>>
    /\ UserWordNotes = <<>>
    /\ LookupHistory = <<>>
    /\ now = 0
    /\ last = NoCall
    /\ focus \in Focuses
    /\ calls = <<>>

\* The call's outcome as its caller sees it: the error code or "OK", and the
\* rows returned.
Respond(op, caller, input, result, ret) ==
    last' = [op |-> op, caller |-> caller, input |-> input, result |-> result, ret |-> ret]

\* A call that throws writes nothing.
Throw(op, caller, input, code) ==
    /\ Respond(op, caller, input, code, <<>>)
    /\ UNCHANGED tables

\* Time passes between calls.
Tick ==
    /\ now < MaxTime
    /\ now' = now + 1
    /\ UNCHANGED <<tables, last, focus, calls>>

----------------------------------------------------------------------------
(* The six actions, each call one uninterrupted step *)

upsertEntry ==
    \E input \in UpsertEntryInputs :
        /\ UNCHANGED <<calls, focus>>
        /\ IF ~UpsertEntrySchema(input)
           THEN Throw("upsertEntry", NoUser, input, "VALIDATION") /\ UNCHANGED now
           ELSE \E t1 \in {now} : \E t2 \in Later(t1) : \E t3 \in Later(t2) :
                LET baseValues == EntryBaseValues(input, t1, t2, t3) IN
                /\ now' = t3
                /\ IF Truthy(input, "id")
                   THEN LET existing == SelectById(DictionaryEntries, input.id) IN
                        IF Len(existing) = 0
                        THEN Throw("upsertEntry", NoUser, input, "NOT_FOUND")
                        ELSE /\ DictionaryEntries' = Update(DictionaryEntries, input.id, baseValues)
                             /\ Respond("upsertEntry", NoUser, input, "OK",
                                        SelectById(DictionaryEntries', input.id))
                             /\ UNCHANGED <<EntryVariants, UserWordNotes, LookupHistory>>
                   ELSE /\ Room(DictionaryEntries, "entries", MaxEntries)
                        /\ DictionaryEntries' =
                               Insert(DictionaryEntries, baseValues, DictionaryEntriesDefaults(t3))
                        /\ Respond("upsertEntry", NoUser, input, "OK",
                                   <<DictionaryEntries'[Len(DictionaryEntries')]>>)
                        /\ UNCHANGED <<EntryVariants, UserWordNotes, LookupHistory>>

addVariant ==
    \E input \in AddVariantInputs :
        /\ UNCHANGED <<calls, focus>>
        /\ IF ~AddVariantSchema(input)
           THEN Throw("addVariant", NoUser, input, "VALIDATION") /\ UNCHANGED now
           ELSE LET entry == SelectById(DictionaryEntries, input.entryId) IN
                IF Len(entry) = 0
                THEN Throw("addVariant", NoUser, input, "NOT_FOUND") /\ UNCHANGED now
                ELSE /\ Room(EntryVariants, "variants", MaxVariants)
                     /\ EntryVariants' =
                            Insert(EntryVariants,
                                   WithKey(input, "createdAt", now),
                                   EntryVariantsDefaults(now))
                     /\ Respond("addVariant", NoUser, input, "OK",
                                <<EntryVariants'[Len(EntryVariants')]>>)
                     /\ UNCHANGED <<DictionaryEntries, UserWordNotes, LookupHistory, now>>

\* saveUserNote with the entry resolved before the user is.
saveUserNoteEntryFirst ==
    \E caller \in Callers : \E input \in SaveUserNoteInputs :
        /\ UNCHANGED <<calls, focus>>
        /\ IF ~SaveUserNoteSchema(input)
           THEN Throw("saveUserNote", caller, input, "VALIDATION") /\ UNCHANGED now
           ELSE LET entry == SelectById(DictionaryEntries, input.entryId) IN
                IF Len(entry) = 0
                THEN Throw("saveUserNote", caller, input, "NOT_FOUND") /\ UNCHANGED now
                ELSE IF ~requireUser(caller)
                THEN Throw("saveUserNote", caller, input, "UNAUTHORIZED") /\ UNCHANGED now
                ELSE LET existing == SelectNote(UserWordNotes, input.entryId, caller) IN
                     \E t1 \in {now} : \E t2 \in Later(t1) :
                     LET baseValues == NoteBaseValues(input, caller, existing, t1, t2) IN
                     /\ now' = t2
                     /\ Len(existing) = 0 => Room(UserWordNotes, "notes", MaxNotes)
                     /\ UserWordNotes' = NoteWrite(UserWordNotes, existing, baseValues, t2)
                     /\ Respond("saveUserNote", caller, input, "OK",
                                NoteWritten(UserWordNotes', existing))
                     /\ UNCHANGED <<DictionaryEntries, EntryVariants, LookupHistory>>

saveUserNote ==
    \E caller \in Callers : \E input \in SaveUserNoteInputs :
        /\ UNCHANGED <<calls, focus>>
        /\ IF ~SaveUserNoteSchema(input)
           THEN Throw("saveUserNote", caller, input, "VALIDATION") /\ UNCHANGED now
           ELSE IF ~requireUser(caller)
           THEN Throw("saveUserNote", caller, input, "UNAUTHORIZED") /\ UNCHANGED now
           ELSE LET entry == SelectById(DictionaryEntries, input.entryId) IN
                IF Len(entry) = 0
                THEN Throw("saveUserNote", caller, input, "NOT_FOUND") /\ UNCHANGED now
                ELSE LET existing == SelectNote(UserWordNotes, input.entryId, caller) IN
                     \E t1 \in {now} : \E t2 \in Later(t1) :
                     LET baseValues == NoteBaseValues(input, caller, existing, t1, t2) IN
                     /\ now' = t2
                     /\ Len(existing) = 0 => Room(UserWordNotes, "notes", MaxNotes)
                     /\ UserWordNotes' = NoteWrite(UserWordNotes, existing, baseValues, t2)
                     /\ Respond("saveUserNote", caller, input, "OK",
                                NoteWritten(UserWordNotes', existing))
                     /\ UNCHANGED <<DictionaryEntries, EntryVariants, LookupHistory>>

listUserNotes ==
    \E caller \in Callers :
        /\ UNCHANGED <<calls, focus, now>>
        /\ IF ~requireUser(caller)
           THEN Throw("listUserNotes", caller, <<>>, "UNAUTHORIZED")
           ELSE /\ Respond("listUserNotes", caller, <<>>, "OK",
                           SelectByUser(UserWordNotes, caller))
                /\ UNCHANGED tables

logLookup ==
    \E caller \in Callers : \E input \in LogLookupInputs :
        /\ UNCHANGED <<calls, focus, now>>
        /\ IF ~LogLookupSchema(input)
           THEN Throw("logLookup", caller, input, "VALIDATION")
           ELSE IF ~requireUser(caller)
           THEN Throw("logLookup", caller, input, "UNAUTHORIZED")
           ELSE /\ Room(LookupHistory, "lookups", MaxHistory)
                /\ LookupHistory' =
                       Insert(LookupHistory, LookupValues(input, caller, now),
                              LookupHistoryDefaults(now))
                /\ Respond("logLookup", caller, input, "OK",
                           <<LookupHistory'[Len(LookupHistory')]>>)
                /\ UNCHANGED <<DictionaryEntries, EntryVariants, UserWordNotes>>

listLookupHistory ==
    \E caller \in Callers :
        /\ UNCHANGED <<calls, focus, now>>
        /\ IF ~requireUser(caller)
           THEN Throw("listLookupHistory", caller, <<>>, "UNAUTHORIZED")
           ELSE /\ Respond("listLookupHistory", caller, <<>>, "OK",
                           SelectByUser(LookupHistory, caller))
                /\ UNCHANGED tables

Next ==
    \/ Tick
    \/ upsertEntry
    \/ addVariant
    \/ saveUserNote
    \/ listUserNotes
    \/ logLookup
    \/ listLookupHistory

Spec == Init /\ [][Next]_vars

----------------------------------------------------------------------------
(* Interleaved callers: a handler runs up to its next `await` in one step, and
   the store runs one query in one step. calls holds the handlers in flight:
   what was called, where the handler waits (pc), the rows its last select
   found, and the baseValues it has computed. These are the runs of the three
   handlers that read the store and then write it; listUserNotes, logLookup
   and listLookupHistory run a single query each, touch neither
   DictionaryEntries nor EntryVariants, write no UserWordNotes row, and are
   left to the runs above. *)

InitInterleaved ==
    /\ DictionaryEntries = <<>>
    /\ EntryVariants = <<>>
    /\ UserWordNotes = <<>>
    /\ LookupHistory = <<>>
    /\ now = 0
    /\ last = NoCall
    /\ focus = Interleaved
    /\ calls = <<>>

Call(op, caller, input, pc, values) ==
    [op |-> op, caller |-> caller, input |-> input, pc |-> pc, found |-> <<>>,
     values |-> values]

\* The handler is entered and runs to its first await.
Begin(call) ==
    /\ Len(calls) < MaxCalls
    /\ calls' = Append(calls, call)
    /\ UNCHANGED <<tables, last, focus>>

\* calls without its k-th handler, which has returned or thrown.
Without(k) == [i \in 1..(Len(calls) - 1) |-> IF i < k THEN calls[i] ELSE calls[i + 1]]

Waiting(k, op, pc) == calls[k].op = op /\ calls[k].pc = pc

Return(k, ret) ==
    /\ Respond(calls[k].op, calls[k].caller, calls[k].input, "OK", ret)
    /\ calls' = Without(k)

ThrowFrom(k, code) ==
    /\ Throw(calls[k].op, calls[k].caller, calls[k].input, code)
    /\ calls' = Without(k)

\* The handler goes on to its next await with the rows its select found.
Resume(k, pc, found) ==
    /\ calls' = [calls EXCEPT ![k].pc = pc, ![k].found = found]
    /\ UNCHANGED <<tables, last>>

BeginUpsertEntry ==
    \E input \in UpsertEntryInputs :
        /\ UNCHANGED focus
        /\ IF ~UpsertEntrySchema(input)
           THEN Throw("upsertEntry", NoUser, input, "VALIDATION") /\ UNCHANGED <<now, calls>>
           ELSE \E t1 \in {now} : \E t2 \in Later(t1) : \E t3 \in Later(t2) :
                /\ now' = t3
                /\ Begin(Call("upsertEntry", NoUser, input,
                              IF Truthy(input, "id") THEN "select" ELSE "insert",
                              EntryBaseValues(input, t1, t2, t3)))

UpsertEntrySelect ==
    \E k \in 1..Len(calls) :
        /\ Waiting(k, "upsertEntry", "select")
        /\ UNCHANGED <<now, focus>>
        /\ LET existing == SelectById(DictionaryEntries, calls[k].input.id) IN
           IF Len(existing) = 0
           THEN ThrowFrom(k, "NOT_FOUND")
           ELSE Resume(k, "update", existing)

UpsertEntryWrite ==
    \E k \in 1..Len(calls) :
        /\ calls[k].op = "upsertEntry"
        /\ UNCHANGED <<now, focus, EntryVariants, UserWordNotes, LookupHistory>>
        /\ \/ /\ calls[k].pc = "update"
              /\ DictionaryEntries' =
                     Update(DictionaryEntries, calls[k].input.id, calls[k].values)
              /\ Return(k, SelectById(DictionaryEntries', calls[k].input.id))
           \/ /\ calls[k].pc = "insert"
              /\ Room(DictionaryEntries, "entries", MaxEntries)
              /\ DictionaryEntries' =
                     Insert(DictionaryEntries, calls[k].values,
                            DictionaryEntriesDefaults(now))
              /\ Return(k, <<DictionaryEntries'[Len(DictionaryEntries')]>>)

BeginAddVariant ==
    \E input \in AddVariantInputs :
        /\ UNCHANGED <<now, focus>>
        /\ IF ~AddVariantSchema(input)
           THEN Throw("addVariant", NoUser, input, "VALIDATION") /\ UNCHANGED calls
           ELSE Begin(Call("addVariant", NoUser, input, "select", <<>>))

\* AddVariantSelect without `if (!entry)`.
AddVariantSelectUnchecked ==
    \E k \in 1..Len(calls) :
        /\ Waiting(k, "addVariant", "select")
        /\ UNCHANGED <<now, focus>>
        /\ LET entry == SelectById(DictionaryEntries, calls[k].input.entryId) IN
           /\ calls' = [calls EXCEPT ![k].pc = "insert", ![k].found = entry,
                                     ![k].values = WithKey(calls[k].input, "createdAt", now)]
           /\ UNCHANGED <<tables, last>>

\* The turn that finds the entry also builds the row, createdAt included, and
\* hands it to the store.
AddVariantSelect ==
    \E k \in 1..Len(calls) :
        /\ Waiting(k, "addVariant", "select")
        /\ UNCHANGED <<now, focus>>
        /\ LET entry == SelectById(DictionaryEntries, calls[k].input.entryId) IN
           IF Len(entry) = 0
           THEN ThrowFrom(k, "NOT_FOUND")
           ELSE /\ calls' = [calls EXCEPT ![k].pc = "insert", ![k].found = entry,
                                          ![k].values = WithKey(calls[k].input, "createdAt", now)]
                /\ UNCHANGED <<tables, last>>

AddVariantInsert ==
    \E k \in 1..Len(calls) :
        /\ Waiting(k, "addVariant", "insert")
        /\ Room(EntryVariants, "variants", MaxVariants)
        /\ EntryVariants' = Insert(EntryVariants, calls[k].values, EntryVariantsDefaults(now))
        /\ Return(k, <<EntryVariants'[Len(EntryVariants')]>>)
        /\ UNCHANGED <<now, focus, DictionaryEntries, UserWordNotes, LookupHistory>>

BeginSaveUserNote ==
    \E caller \in Callers : \E input \in SaveUserNoteInputs :
        /\ UNCHANGED <<now, focus>>
        /\ IF ~SaveUserNoteSchema(input)
           THEN Throw("saveUserNote", caller, input, "VALIDATION") /\ UNCHANGED calls
           ELSE IF ~requireUser(caller)
           THEN Throw("saveUserNote", caller, input, "UNAUTHORIZED") /\ UNCHANGED calls
           ELSE Begin(Call("saveUserNote", caller, input, "selectEntry", <<>>))

SaveUserNoteSelectEntry ==
    \E k \in 1..Len(calls) :
        /\ Waiting(k, "saveUserNote", "selectEntry")
        /\ UNCHANGED <<now, focus>>
        /\ LET entry == SelectById(DictionaryEntries, calls[k].input.entryId) IN
           IF Len(entry) = 0
           THEN ThrowFrom(k, "NOT_FOUND")
           ELSE Resume(k, "selectExisting", entry)

\* The identity-resolution read; the turn it resumes computes baseValues.
SaveUserNoteSelectExisting ==
    \E k \in 1..Len(calls) :
        /\ Waiting(k, "saveUserNote", "selectExisting")
        /\ UNCHANGED focus
        /\ LET existing == SelectNote(UserWordNotes, calls[k].input.entryId, calls[k].caller) IN
           \E t1 \in {now} : \E t2 \in Later(t1) :
               /\ now' = t2
               /\ calls' = [calls EXCEPT
                      ![k].pc = "write",
                      ![k].found = existing,
                      ![k].values = NoteBaseValues(calls[k].input, calls[k].caller,
                                                   existing, t1, t2)]
               /\ UNCHANGED <<tables, last>>

\* `if (existing)` update, else insert: decided by the rows read earlier.
SaveUserNoteWrite ==
    \E k \in 1..Len(calls) :
        /\ Waiting(k, "saveUserNote", "write")
        /\ UNCHANGED <<now, focus, DictionaryEntries, EntryVariants, LookupHistory>>
        /\ Len(calls[k].found) = 0 => Room(UserWordNotes, "notes", MaxNotes)
        /\ UserWordNotes' = NoteWrite(UserWordNotes, calls[k].found, calls[k].values, now)
        /\ Return(k, NoteWritten(UserWordNotes', calls[k].found))

NextInterleaved ==
    \/ Tick
    \/ BeginUpsertEntry
    \/ UpsertEntrySelect
    \/ UpsertEntryWrite
    \/ BeginAddVariant
    \/ AddVariantSelect
    \/ AddVariantInsert
    \/ BeginSaveUserNote
    \/ SaveUserNoteSelectEntry
    \/ SaveUserNoteSelectExisting
    \/ SaveUserNoteWrite

SpecInterleaved == InitInterleaved /\ [][NextInterleaved]_vars

----------------------------------------------------------------------------
(* Vocabulary of the properties *)

\* The step is a call of op, described by last', that changed the store or
\* answered differently from the call before it.
Acted(op) == last'.op = op /\ (last' # last \/ tables' # tables)

\* The positions of the rows of a (userId, entryId) pair.
PairRows(rows, userId, entryId) ==
    { i \in 1..Len(rows) : rows[i].userId = userId /\ rows[i].entryId = entryId }

\* The positions of the rows with an id.
IdRows(rows, id) == { i \in 1..Len(rows) : rows[i].id = id }

Succeeded(op) == last.op = op /\ last.result = "OK"

----------------------------------------------------------------------------
(* C1: with each call one uninterrupted step, the store holds at most one
   UserWordNote row per (userId, entryId) pair in every reachable state, and
   a saveUserNote for a pair that already has a row updates that row and
   inserts nothing. *)

OneNotePerPair ==
    \A i, j \in 1..Len(UserWordNotes) :
        (/\ UserWordNotes[i].userId = UserWordNotes[j].userId
         /\ UserWordNotes[i].entryId = UserWordNotes[j].entryId) => i = j

SaveOfExistingPairUpdates ==
    (/\ Acted("saveUserNote")
     /\ last'.result = "OK"
     /\ PairRows(UserWordNotes, last'.caller, last'.input.entryId) # {})
    => /\ Len(UserWordNotes') = Len(UserWordNotes)
       /\ \A i \in 1..Len(UserWordNotes) :
              i \notin PairRows(UserWordNotes, last'.caller, last'.input.entryId)
              => UserWordNotes'[i] = UserWordNotes[i]

C1_OneNotePerPair == []OneNotePerPair /\ [][SaveOfExistingPairUpdates]_vars

\* A second save for a pair has acted: the one row carries both saves' fields.
C1_Witness ==
    /\ Succeeded("saveUserNote")
    /\ Len(UserWordNotes) = 1
    /\ UserWordNotes[1].isStarred = TRUE
    /\ UserWordNotes[1].note = "means to jog"
    /\ Has(last.input, "note")

----------------------------------------------------------------------------
(* C2: with interleaved callers, a saveUserNote whose identity-resolution
   read found no row for its (userId, entryId) pair inserts a row when it
   writes, whatever the table holds for the pair by then; so two calls of one
   user for one entry that both read before either writes leave two rows for
   the pair, and the one-row-per-pair invariant does not survive. *)

StaleWriteInserts ==
    \A k \in 1..Len(calls) :
        (/\ Waiting(k, "saveUserNote", "write")
         /\ calls[k].found = <<>>
         /\ calls' = Without(k))
        => /\ Len(UserWordNotes') = Len(UserWordNotes) + 1
           /\ SubSeq(UserWordNotes', 1, Len(UserWordNotes)) = UserWordNotes
           /\ UserWordNotes'[Len(UserWordNotes')].userId = calls[k].caller
           /\ UserWordNotes'[Len(UserWordNotes')].entryId = calls[k].input.entryId

C2_RaceInsertsDuplicate == [][StaleWriteInserts]_vars

\* Two rows of one (userId, entryId) pair, the second written by a call whose
\* read had found none.
C2_Witness ==
    /\ Succeeded("saveUserNote")
    /\ Len(UserWordNotes) = 2
    /\ UserWordNotes[1].userId = UserWordNotes[2].userId
    /\ UserWordNotes[1].entryId = UserWordNotes[2].entryId
    /\ last.ret = <<UserWordNotes[2]>>

----------------------------------------------------------------------------
(* C3: after a successful saveUserNote, each of tags, note, exampleSentence,
   isStarred and familiarity of the persisted row is the input's value when
   the caller gave one, else the value of the pair's existing row when there
   was one, else the default (isStarred FALSE, familiarity "new", the others
   absent). *)

NoteFields == {"tags", "note", "exampleSentence", "isStarred", "familiarity"}

NoteFieldDefault(f) ==
    CASE f = "isStarred" -> FALSE
      [] f = "familiarity" -> "new"
      [] OTHER -> NULL

SaveResolvesFields ==
    (Acted("saveUserNote") /\ last'.result = "OK")
    => LET input == last'.input
           prior == PairRows(UserWordNotes, last'.caller, input.entryId)
           after == PairRows(UserWordNotes', last'.caller, input.entryId)
       IN /\ after # {}
          /\ \A i \in after : \A f \in NoteFields :
                 UserWordNotes'[i][f] =
                     IF Has(input, f) THEN input[f]
                     ELSE IF prior # {} THEN UserWordNotes[CHOOSE j \in prior : TRUE][f]
                     ELSE NoteFieldDefault(f)

C3_FieldResolution == [][SaveResolvesFields]_vars

\* An explicit isStarred FALSE has overridden a prior TRUE, and the note of an
\* earlier save is still there.
C3_Witness ==
    /\ Succeeded("saveUserNote")
    /\ Has(last.input, "isStarred") /\ last.input.isStarred = FALSE
    /\ \E i \in PairRows(UserWordNotes, last.caller, last.input.entryId) :
           /\ UserWordNotes[i].isStarred = FALSE
           /\ UserWordNotes[i].note = "means to jog"
           /\ UserWordNotes[i].familiarity = "learning"

----------------------------------------------------------------------------
(* C4: an upsertEntry whose id references an existing entry leaves every
   field among language, lemma, payload and partOfSpeech that the input omits
   as it was before the call. *)

UpdateKeepsOmittedFields ==
    (Acted("upsertEntry") /\ Has(last'.input, "id"))
    => \A i \in IdRows(DictionaryEntries, last'.input.id) :
           \A f \in {"language", "lemma", "payload", "partOfSpeech"} \ DOMAIN last'.input :
               DictionaryEntries'[i][f] = DictionaryEntries[i][f]

C4_OmittedFieldsRetained == [][UpdateKeepsOmittedFields]_vars

----------------------------------------------------------------------------
(* C5: upsertEntry with the id of an existing entry and no term in the input
   succeeds and returns the entry with its prior term and the input's
   lemma. *)

UpdateWithoutTermSucceeds ==
    (/\ Acted("upsertEntry")
     /\ Has(last'.input, "id")
     /\ ~Has(last'.input, "term")
     /\ IdRows(DictionaryEntries, last'.input.id) # {})
    => /\ last'.result = "OK"
       /\ \A i \in IdRows(DictionaryEntries, last'.input.id) :
              /\ last'.ret = <<DictionaryEntries'[i]>>
              /\ DictionaryEntries'[i].term = DictionaryEntries[i].term
              /\ Has(last'.input, "lemma") => DictionaryEntries'[i].lemma = last'.input.lemma

C5_UpdateWithoutTerm == [][UpdateWithoutTermSucceeds]_vars

----------------------------------------------------------------------------
(* C6: the createdAt of a DictionaryEntry or UserWordNote is the time of the
   insert that created it, and no later call changes it. *)

CreatedAtFixed(rows, rowsAfter) ==
    /\ \A i \in 1..Len(rows) : rowsAfter[i].createdAt = rows[i].createdAt
    /\ \A i \in (Len(rows) + 1)..Len(rowsAfter) :
           now <= rowsAfter[i].createdAt /\ rowsAfter[i].createdAt <= now'

C6_CreatedAtFixed ==
    [][/\ CreatedAtFixed(DictionaryEntries, DictionaryEntries')
       /\ CreatedAtFixed(UserWordNotes, UserWordNotes')]_vars

----------------------------------------------------------------------------
(* C7: upsertEntry with a supplied id that matches no entry, id 0 included,
   fails with NOT_FOUND and leaves the four tables unchanged; an entry row is
   inserted only when the input has no id. *)

UnknownIdIsNotFound ==
    /\ (/\ Acted("upsertEntry")
        /\ UpsertEntrySchema(last'.input)
        /\ Has(last'.input, "id")
        /\ IdRows(DictionaryEntries, last'.input.id) = {})
       => last'.result = "NOT_FOUND" /\ UNCHANGED tables
    /\ Len(DictionaryEntries') > Len(DictionaryEntries)
       => last'.op = "upsertEntry" /\ ~Has(last'.input, "id")

C7_UnknownIdNotFound == [][UnknownIdIsNotFound]_vars

----------------------------------------------------------------------------
(* C8: saveUserNote, listUserNotes, logLookup and listLookupHistory, called
   with no authenticated user, fail with UNAUTHORIZED for every input their
   handler is given, and leave the four tables unchanged. *)

AuthActions == {"saveUserNote", "listUserNotes", "logLookup", "listLookupHistory"}

\* The action's schema accepts the input, so that its handler runs.
Accepted(op, input) ==
    CASE op = "upsertEntry" -> UpsertEntrySchema(input)
      [] op = "addVariant" -> AddVariantSchema(input)
      [] op = "saveUserNote" -> SaveUserNoteSchema(input)
      [] op = "logLookup" -> LogLookupSchema(input)
      [] OTHER -> TRUE

AnonymousIsRefused ==
    \A op \in AuthActions :
        (Acted(op) /\ last'.caller = NoUser)
        => /\ UNCHANGED tables
           /\ Accepted(op, last'.input) => last'.result = "UNAUTHORIZED"

C8_Unauthorized == [][AnonymousIsRefused]_vars

\* An anonymous saveUserNote for an entry that exists has been refused.
C8_Witness ==
    /\ last.op = "saveUserNote"
    /\ last.caller = NoUser
    /\ last.result = "UNAUTHORIZED"
    /\ IdRows(DictionaryEntries, last.input.entryId) # {}

----------------------------------------------------------------------------
(* C9: listUserNotes called by user U returns exactly the UserWordNote rows
   whose userId is U, and listLookupHistory exactly the LookupHistory rows
   whose userId is U: no row of another user, and none of U's missing. *)

\* ret holds each row of rows that is userId's once, and nothing else.
ExactlyRowsOf(ret, rows, userId) ==
    /\ \A k \in 1..Len(ret) :
           /\ ret[k].userId = userId
           /\ \E i \in 1..Len(rows) : rows[i] = ret[k]
    /\ \A i \in 1..Len(rows) :
           rows[i].userId = userId => \E k \in 1..Len(ret) : ret[k] = rows[i]
    /\ \A k, l \in 1..Len(ret) : ret[k] = ret[l] => k = l

ListsOwnRows ==
    /\ (Acted("listUserNotes") /\ last'.result = "OK")
       => ExactlyRowsOf(last'.ret, UserWordNotes, last'.caller)
    /\ (Acted("listLookupHistory") /\ last'.result = "OK")
       => ExactlyRowsOf(last'.ret, LookupHistory, last'.caller)

C9_ListIsolation == [][ListsOwnRows]_vars

\* Two users have a note each and one of them has listed: one row came back.
C9_Witness ==
    /\ Succeeded("listUserNotes")
    /\ Len(UserWordNotes) = 2
    /\ UserWordNotes[1].userId # UserWordNotes[2].userId
    /\ Len(last.ret) = 1
    /\ last.ret[1].userId = last.caller

----------------------------------------------------------------------------
(* C10: addVariant with an entryId that matches no entry fails with
   NOT_FOUND and leaves the four tables unchanged; with an entryId that
   exists it inserts exactly one EntryVariant row with the input's entryId
   and variant. *)

AddVariantChecksEntry ==
    (Acted("addVariant") /\ AddVariantSchema(last'.input))
    => IF IdRows(DictionaryEntries, last'.input.entryId) = {}
       THEN last'.result = "NOT_FOUND" /\ UNCHANGED tables
       ELSE /\ last'.result = "OK"
            /\ Len(EntryVariants') = Len(EntryVariants) + 1
            /\ SubSeq(EntryVariants', 1, Len(EntryVariants)) = EntryVariants
            /\ EntryVariants'[Len(EntryVariants')].entryId = last'.input.entryId
            /\ EntryVariants'[Len(EntryVariants')].variant = last'.input.variant
            /\ UNCHANGED <<DictionaryEntries, UserWordNotes, LookupHistory>>

C10_AddVariant == [][AddVariantChecksEntry]_vars

\* With an entry stored, an addVariant for an entryId that is not has failed.
C10_Witness ==
    /\ last.op = "addVariant"
    /\ last.result = "NOT_FOUND"
    /\ Len(DictionaryEntries) > 0
    /\ EntryVariants = <<>>

----------------------------------------------------------------------------
(* C11: a valid upsertEntry input without id adds exactly one new
   DictionaryEntry row with a fresh id, whose term is the input's, whose
   language is the input's or "en" when omitted, and whose createdAt equals
   its updatedAt; no existing entry row is changed. *)

InsertedEntry(rows, rowsAfter, input) ==
    /\ Len(rowsAfter) = Len(rows) + 1
    /\ SubSeq(rowsAfter, 1, Len(rows)) = rows
    /\ IdRows(rows, rowsAfter[Len(rowsAfter)].id) = {}
    /\ rowsAfter[Len(rowsAfter)].term = input.term
    /\ rowsAfter[Len(rowsAfter)].language =
           (IF Has(input, "language") THEN input.language ELSE "en")

InsertAddsOneEntry ==
    (/\ Acted("upsertEntry")
     /\ UpsertEntrySchema(last'.input)
     /\ ~Has(last'.input, "id"))
    => /\ last'.result = "OK"
       /\ InsertedEntry(DictionaryEntries, DictionaryEntries', last'.input)
       /\ DictionaryEntries'[Len(DictionaryEntries')].createdAt =
              DictionaryEntries'[Len(DictionaryEntries')].updatedAt

C11_InsertCreatesEntry == [][InsertAddsOneEntry]_vars

----------------------------------------------------------------------------
(* C12: when the clock has advanced since a record was last written, a
   successful update of it by upsertEntry (with id) or by saveUserNote (an
   existing pair) sets updatedAt to the current time: updatedAt is strictly
   greater after the call than before, and is never less than createdAt. *)

\* Row i of rows, last written before the clock reached now, is stamped now or
\* later in rowsAfter.
Restamped(rows, rowsAfter, i) ==
    rows[i].updatedAt < now
    => /\ rowsAfter[i].updatedAt > rows[i].updatedAt
       /\ now <= rowsAfter[i].updatedAt /\ rowsAfter[i].updatedAt <= now'
       /\ rowsAfter[i].updatedAt >= rowsAfter[i].createdAt

UpdateStampsUpdatedAt ==
    /\ (Acted("upsertEntry") /\ last'.result = "OK" /\ Has(last'.input, "id"))
       => \A i \in IdRows(DictionaryEntries, last'.input.id) :
              Restamped(DictionaryEntries, DictionaryEntries', i)
    /\ (Acted("saveUserNote") /\ last'.result = "OK")
       => \A i \in PairRows(UserWordNotes, last'.caller, last'.input.entryId) :
              Restamped(UserWordNotes, UserWordNotes', i)

C12_UpdatedAtAdvances == [][UpdateStampsUpdatedAt]_vars

\* A note created at time 0 has been saved again at time 1.
C12_Witness ==
    /\ Succeeded("saveUserNote")
    /\ now = 1
    /\ \E i \in PairRows(UserWordNotes, last.caller, last.input.entryId) :
           /\ UserWordNotes[i].createdAt = 0
           /\ UserWordNotes[i].updatedAt = 1
           /\ UserWordNotes[i].isStarred = TRUE
           /\ UserWordNotes[i].exampleSentence = "I run."
           /\ last.ret = <<UserWordNotes[i]>>

----------------------------------------------------------------------------
(* C13: re-applying the same input to the record the previous call produced,
   by upsertEntry with that record's id or by saveUserNote for the same user
   and entry, leaves the number of rows unchanged and yields a record equal to
   it in every field except the timestamps the call stamps: updatedAt, and for
   upsertEntry also createdAt, and fetchedAt when the input gives none. *)

SameExcept(r, s, fields) ==
    /\ DOMAIN r = DOMAIN s
    /\ \A k \in DOMAIN r \ fields : r[k] = s[k]

\* This step applies to the record the previous call returned the input that
\* produced it.
Reapplied(op) ==
    /\ last.op = op /\ last.result = "OK"
    /\ Acted(op)
    /\ last'.caller = last.caller
    /\ last'.input = IF op = "upsertEntry"
                     THEN WithKey(last.input, "id", last.ret[1].id)
                     ELSE last.input

Idempotent(op, rows, rowsAfter, fields) ==
    Reapplied(op)
    => /\ last'.result = "OK"
       /\ Len(rowsAfter) = Len(rows)
       /\ Len(last'.ret) = 1
       /\ SameExcept(last'.ret[1], last.ret[1], fields)

\* The timestamps upsertEntry stamps on an update.
EntryStamps(input) ==
    {"updatedAt", "createdAt"} \cup
    (IF Has(input, "fetchedAt") THEN {} ELSE {"fetchedAt"})

ReapplyChangesOnlyUpdatedAt ==
    /\ Idempotent("upsertEntry", DictionaryEntries, DictionaryEntries', {"updatedAt"})
    /\ Idempotent("saveUserNote", UserWordNotes, UserWordNotes', {"updatedAt"})

ReapplyChangesOnlyStamps ==
    /\ Idempotent("upsertEntry", DictionaryEntries, DictionaryEntries',
                  EntryStamps(last'.input))
    /\ Idempotent("saveUserNote", UserWordNotes, UserWordNotes', {"updatedAt"})

----------------------------------------------------------------------------
(* C14: EntryVariants and LookupHistory are append-only. No step modifies or
   removes a row of either table; a successful addVariant adds exactly one
   EntryVariants row; a successful logLookup adds exactly one LookupHistory
   row, with the caller's userId and the input's language or "en" when omitted,
   even when an identical row is already stored. *)

\* rowsAfter is rows, or rows with one row added at the end.
Kept(rows, rowsAfter) ==
    /\ Len(rowsAfter) >= Len(rows)
    /\ SubSeq(rowsAfter, 1, Len(rows)) = rows

AddedOne(rows, rowsAfter) ==
    /\ Len(rowsAfter) = Len(rows) + 1
    /\ IdRows(rows, rowsAfter[Len(rowsAfter)].id) = {}

AppendOnly ==
    /\ Kept(EntryVariants, EntryVariants')
    /\ Kept(LookupHistory, LookupHistory')
    /\ (Acted("addVariant") /\ last'.result = "OK")
       => /\ AddedOne(EntryVariants, EntryVariants')
          /\ LookupHistory' = LookupHistory
    /\ (Acted("logLookup") /\ last'.result = "OK")
       => /\ AddedOne(LookupHistory, LookupHistory')
          /\ EntryVariants' = EntryVariants
          /\ LookupHistory'[Len(LookupHistory')].userId = last'.caller
          /\ LookupHistory'[Len(LookupHistory')].language =
                 (IF Has(last'.input, "language") THEN last'.input.language ELSE "en")

C14_AppendOnly == [][AppendOnly]_vars

\* The same lookup has been logged twice, and is stored twice.
C14_Witness ==
    /\ Succeeded("logLookup")
    /\ Len(LookupHistory) = 2
    /\ SameExcept(LookupHistory[1], LookupHistory[2], {"id"})
    /\ LookupHistory[1].id # LookupHistory[2].id
    /\ LookupHistory[2].userId = last.caller
    /\ LookupHistory[2].language = "en"
    /\ ~Has(last.input, "language")

----------------------------------------------------------------------------
(* C15: after every successful upsertEntry, insert or update, the persisted
   fetchedAt is the input's fetchedAt when the input gives one, and otherwise
   the time of the call, whatever fetchedAt the stored record had. *)

FetchedAtIsStamped ==
    (Acted("upsertEntry") /\ last'.result = "OK")
    => /\ Len(last'.ret) = 1
       /\ \E i \in IdRows(DictionaryEntries', last'.ret[1].id) :
              DictionaryEntries'[i] = last'.ret[1]
       /\ IF Has(last'.input, "fetchedAt")
          THEN last'.ret[1].fetchedAt = last'.input.fetchedAt
          ELSE /\ now <= last'.ret[1].fetchedAt
               /\ last'.ret[1].fetchedAt <= now'

C15_FetchedAt == [][FetchedAtIsStamped]_vars

\* An update at time 1 that gives no fetchedAt has stamped 1.
C15_Witness ==
    /\ Succeeded("upsertEntry")
    /\ Truthy(last.input, "id")
    /\ ~Has(last.input, "fetchedAt")
    /\ now = 1
    /\ \E i \in IdRows(DictionaryEntries, last.input.id) :
           /\ DictionaryEntries[i] = last.ret[1]
           /\ DictionaryEntries[i].fetchedAt = 1

----------------------------------------------------------------------------
(* C16: saveUserNote checks authentication before it resolves the entry. With
   no authenticated user the call fails with UNAUTHORIZED, also when entryId
   matches no entry; with an authenticated user and an entryId that matches no
   DictionaryEntries row it fails with NOT_FOUND; in both cases UserWordNotes
   is unchanged. *)

NoEntry(entryId) == IdRows(DictionaryEntries, entryId) = {}

AuthBeforeEntry ==
    (Acted("saveUserNote") /\ SaveUserNoteSchema(last'.input))
    => /\ last'.caller = NoUser
          => /\ last'.result = "UNAUTHORIZED"
             /\ UserWordNotes' = UserWordNotes
       /\ (last'.caller # NoUser /\ NoEntry(last'.input.entryId))
          => /\ last'.result = "NOT_FOUND"
             /\ UserWordNotes' = UserWordNotes

C16_AuthBeforeEntry == [][AuthBeforeEntry]_vars

\* An anonymous caller has been refused a note on an entry that does not
\* exist, while notes are stored.
C16_Witness ==
    /\ last.op = "saveUserNote"
    /\ last.caller = NoUser
    /\ last.result = "UNAUTHORIZED"
    /\ NoEntry(last.input.entryId)
    /\ Len(DictionaryEntries) > 0
    /\ Len(UserWordNotes) > 0

----------------------------------------------------------------------------
(* C17: referential integrity holds in every reachable state, also when the
   callers' handlers interleave: every EntryVariants row and every
   UserWordNotes row has an entryId that is the id of a stored
   DictionaryEntries row; no step removes an entry or changes an entry's id. *)

RefersToEntry(rows) ==
    \A i \in 1..Len(rows) : IdRows(DictionaryEntries, rows[i].entryId) # {}

ReferentialIntegrity == RefersToEntry(EntryVariants) /\ RefersToEntry(UserWordNotes)

EntriesKeepIds ==
    /\ Len(DictionaryEntries') >= Len(DictionaryEntries)
    /\ \A i \in 1..Len(DictionaryEntries) :
           DictionaryEntries'[i].id = DictionaryEntries[i].id

C17_ReferentialIntegrity == []ReferentialIntegrity /\ [][EntriesKeepIds]_vars

\* A variant and a note are stored while an update of their entry and another
\* handler are in flight.
C17_Witness ==
    /\ Len(EntryVariants) > 0
    /\ Len(UserWordNotes) > 0
    /\ Len(calls) = 2
    /\ \E k \in 1..Len(calls) : Waiting(k, "upsertEntry", "update")
    /\ ReferentialIntegrity

----------------------------------------------------------------------------
(* C18: a successful saveUserNote by user U for entry E changes at most the
   one UserWordNotes row of (U, E): every note row of another user or another
   entry, and every row of DictionaryEntries, EntryVariants and LookupHistory,
   is the same after the call as before, and the written row has userId U and
   entryId E. *)

\* The positions of rowsAfter that are new or differ from rows.
Written(rows, rowsAfter) ==
    { i \in 1..Len(rowsAfter) : i > Len(rows) \/ rowsAfter[i] # rows[i] }

SaveWritesOnlyItsRow ==
    (Acted("saveUserNote") /\ last'.result = "OK")
    => /\ DictionaryEntries' = DictionaryEntries
       /\ EntryVariants' = EntryVariants
       /\ LookupHistory' = LookupHistory
       /\ Len(UserWordNotes') >= Len(UserWordNotes)
       /\ Cardinality(Written(UserWordNotes, UserWordNotes')) <= 1
       /\ \A i \in Written(UserWordNotes, UserWordNotes') :
              /\ UserWordNotes'[i].userId = last'.caller
              /\ UserWordNotes'[i].entryId = last'.input.entryId
              /\ last'.ret = <<UserWordNotes'[i]>>
       /\ Len(last'.ret) = 1
       /\ last'.ret[1].userId = last'.caller
       /\ last'.ret[1].entryId = last'.input.entryId

C18_SaveFrame == [][SaveWritesOnlyItsRow]_vars

\* A user's note has been updated while another user's note on the same entry
\* is stored.
C18_Witness ==
    /\ Succeeded("saveUserNote")
    /\ Len(UserWordNotes) = 2
    /\ \E i, j \in 1..2 :
           /\ UserWordNotes[i].userId = last.caller
           /\ UserWordNotes[i].entryId = last.input.entryId
           /\ UserWordNotes[i].createdAt < UserWordNotes[i].updatedAt
           /\ last.ret = <<UserWordNotes[i]>>
           /\ UserWordNotes[j].userId # last.caller
           /\ UserWordNotes[j].entryId = last.input.entryId

====
